---- MODULE Spec2Model ----
(***************************************************************************)
(* Bash-style command line flag completion (gflags_completions.cc).        *)
(*                                                                         *)
(* A string is a sequence of one-character strings; positions are 0-based  *)
(* as in std::string, and string::npos is NPOS.  A flag is a record        *)
(* [name, filename, description]; a pointer to a flag of the vector        *)
(* all_flags is its index, so a std::set of flag pointers is a set of      *)
(* indices iterated in ascending order.                                    *)
(***************************************************************************)
EXTENDS Integers, Sequences, FiniteSets, TLC

VARIABLES
  pc,                     \* position in HandleCommandLineCompletions / PrintFlagCompletionInfo
  program_name,           \* ProgramInvocationShortName()
  cursor_word,            \* FLAGS_tab_completion_word
  all_flags,              \* the vector filled by GetAllFlags
  canonical_token,
  options,                \* CompletionOptions
  matching_flags,
  longest_common_prefix,
  module,
  package_dir,
  notable_flags,          \* NotableFlags
  output_groups,          \* vector<DisplayInfoGroup>
  group_it,               \* iterator of the emission loop (index of the next group)
  perfect_match_found,
  remaining_lines,
  completions_output,
  completions,            \* vector<string> of lines
  stdout,                 \* what was written to standard output
  exited,                 \* gflags_exitfunc(0) was called
  tab_completion_columns, \* FLAGS_tab_completion_columns
  render_pc,              \* position in GetShortFlagLine / GetLongFlagLine
  line_indentation,       \* GetShortFlagLine / GetLongFlagLine: the indentation
  info,                   \* GetShortFlagLine: the flag that is rendered
  output,                 \* the string GetShortFlagLine / GetLongFlagLine builds
  script_pc,              \* gflags_completions.sh: position in the script
  script_args,            \* gflags_completions.sh: "$@"
  comp_line,              \* gflags_completions.sh: the words of $COMP_LINE
  type_p,                 \* gflags_completions.sh: what type -p finds for a command
  executable_files,       \* gflags_completions.sh: the names with [ -f ] and [ -x ]
  completion_word,
  binary,
  params,
  executed,               \* gflags_completions.sh: the command lines given to eval
  exit_status             \* gflags_completions.sh: the status of exit

completion_vars ==
  << pc, program_name, cursor_word, all_flags, canonical_token, options,
     matching_flags, longest_common_prefix, module, package_dir,
     notable_flags, output_groups, group_it, perfect_match_found,
     remaining_lines, completions_output, completions, stdout, exited >>

render_vars == << tab_completion_columns, render_pc, line_indentation, info, output >>

script_vars == << script_pc, script_args, comp_line, type_p, executable_files,
                  completion_word, binary, params, executed, exit_status >>

vars == << completion_vars, render_vars, script_vars >>

(***************************************************************************)
(* std::string                                                             *)
(***************************************************************************)
NPOS == -1

EmptyString == << >>

\* s.substr(pos), pos <= s.size()
SubstrFrom(s, pos) == SubSeq(s, pos + 1, Len(s))

\* s.substr(0, n)
SubstrTo(s, n) == SubSeq(s, 1, IF n < Len(s) THEN n ELSE Len(s))

\* t occurs in s at the 0-based position pos
OccursAt(s, t, pos) ==
  /\ pos >= 0
  /\ pos + Len(t) <= Len(s)
  /\ \A k \in 1..Len(t) : s[pos + k] = t[k]

\* s.find(t, from): the lowest position >= from at which t occurs, else npos
FindFrom(s, t, from) ==
  LET hits == { p \in from..(Len(s) - Len(t)) : OccursAt(s, t, p) }
  IN  IF hits = {} THEN NPOS
      ELSE CHOOSE p \in hits : \A r \in hits : p <= r

\* s.find(t)
Find(s, t) == FindFrom(s, t, 0)

\* s.rfind(c) for one character c
RFindChar(s, c) ==
  LET hits == { p \in 0..(Len(s) - 1) : s[p + 1] = c }
  IN  IF hits = {} THEN NPOS
      ELSE CHOOSE p \in hits : \A r \in hits : r <= p

PATH_SEPARATOR == "/"

(***************************************************************************)
(* 1) Examine search word                                                  *)
(***************************************************************************)
DefaultOptions ==
  [ flag_name_substring_search        |-> FALSE,
    flag_location_substring_search    |-> FALSE,
    flag_description_substring_search |-> FALSE,
    return_all_matching_flags         |-> FALSE,
    force_no_update                   |-> FALSE ]

\* RemoveTrailingChar: [removed, str]
RemoveTrailingChar(str, c) ==
  IF str = EmptyString THEN [removed |-> FALSE, str |-> str]
  ELSE IF str[Len(str)] = c
       THEN [removed |-> TRUE, str |-> SubstrTo(str, Len(str) - 1)]
       ELSE [removed |-> FALSE, str |-> str]

\* if (token[0] == '"') token = token.substr(1)
StripLeadingQuote(token) ==
  IF token # EmptyString /\ token[1] = "\"" THEN SubstrFrom(token, 1) ELSE token

\* while (token[0] == '-') token = token.substr(1); token[0] of "" is '\0'
RECURSIVE StripLeadingDashes(_)
StripLeadingDashes(token) ==
  IF token # EmptyString /\ token[1] = "-"
  THEN StripLeadingDashes(SubstrFrom(token, 1))
  ELSE token

MaxQuestionMarks == 3
MaxPlusses == 1

\* the while (true) loop: up to three '?' and up to one '+', from the end
RECURSIVE StripSearchOptions(_, _, _)
StripSearchOptions(token, found_question_marks, found_plusses) ==
  IF /\ found_question_marks < MaxQuestionMarks
     /\ RemoveTrailingChar(token, "?").removed
  THEN StripSearchOptions(RemoveTrailingChar(token, "?").str,
                          found_question_marks + 1, found_plusses)
  ELSE IF /\ found_plusses < MaxPlusses
          /\ RemoveTrailingChar(token, "+").removed
  THEN StripSearchOptions(RemoveTrailingChar(token, "+").str,
                          found_question_marks, found_plusses + 1)
  ELSE [ token |-> token,
         found_question_marks |-> found_question_marks,
         found_plusses |-> found_plusses ]

\* mutant: each number of question marks sets one search only
OptionsFromCounts_Exclusive(found_question_marks, found_plusses) ==
  [ flag_name_substring_search        |-> found_question_marks = 1,
    flag_location_substring_search    |-> found_question_marks = 2,
    flag_description_substring_search |-> found_question_marks = 3,
    return_all_matching_flags         |-> found_plusses > 0,
    force_no_update                   |-> FALSE ]

\* the options set from the two counters
OptionsFromCounts(found_question_marks, found_plusses) ==
  [ flag_name_substring_search        |-> found_question_marks > 0,
    flag_location_substring_search    |-> found_question_marks > 1,
    flag_description_substring_search |-> found_question_marks > 2,
    return_all_matching_flags         |-> found_plusses > 0,
    force_no_update                   |-> FALSE ]

\* CanonicalizeCursorWordAndSearchOptions: [token, options]
CanonicalizeCursorWordAndSearchOptions(word, opts) ==
  IF word = EmptyString THEN [token |-> word, options |-> opts]
  ELSE LET r == StripSearchOptions(StripLeadingDashes(StripLeadingQuote(word)), 0, 0)
       IN  [ token   |-> r.token,
             options |-> OptionsFromCounts(r.found_question_marks, r.found_plusses) ]

(***************************************************************************)
(* 2) Find all matches                                                     *)
(***************************************************************************)
\* mutant: the substring search of the name is made whatever the options say
DoesSingleFlagMatch_AnySubstring(flag, opts, match_token) ==
  Find(flag.name, match_token) # NPOS

DoesSingleFlagMatch(flag, opts, match_token) ==
  LET pos == Find(flag.name, match_token)
  IN  IF pos = 0 THEN TRUE
      ELSE IF opts.flag_name_substring_search /\ pos # NPOS THEN TRUE
      ELSE IF /\ opts.flag_location_substring_search
              /\ Find(flag.filename, match_token) # NPOS THEN TRUE
      ELSE IF /\ opts.flag_description_substring_search
              /\ Find(flag.description, match_token) # NPOS THEN TRUE
      ELSE FALSE

\* while (pos < prefix.size() && pos < name.size() && prefix[pos] == name[pos]) ++pos
RECURSIVE CommonPrefixLength(_, _, _)
CommonPrefixLength(prefix, name, pos) ==
  IF pos < Len(prefix) /\ pos < Len(name) /\ prefix[pos + 1] = name[pos + 1]
  THEN CommonPrefixLength(prefix, name, pos + 1)
  ELSE pos

\* mutant: the prefix is only cut to the length of the name
ShrinkCommonPrefix_LengthOnly(prefix, name) ==
  IF prefix = EmptyString \/ name = EmptyString THEN EmptyString
  ELSE SubstrTo(prefix, Len(name))

\* the else branch of FindMatchingFlags: shrink the running prefix by one more name
ShrinkCommonPrefix(prefix, name) ==
  IF prefix = EmptyString \/ name = EmptyString THEN EmptyString
  ELSE SubstrTo(prefix, CommonPrefixLength(prefix, name, 0))

\* mutant: the set is iterated from its last flag to its first
InOrder_Descending(group) ==
  IF group = {} THEN << >>
  ELSE LET last == CHOOSE it \in group : \A other \in group : other <= it
           InGroup(it) == it \in group
       IN  SelectSeq([ k \in 1..last |-> last + 1 - k ], InGroup)

\* the flags of a std::set of pointers, in iteration order (ascending addresses)
InOrder(group) ==
  IF group = {} THEN << >>
  ELSE LET last == CHOOSE it \in group : \A other \in group : other <= it
           InGroup(it) == it \in group
       IN  SelectSeq([ it \in 1..last |-> it ], InGroup)

\* the else branch of the loop of FindMatchingFlags for the matches
\* order[first..last], applied left to right (the range is halved to keep the
\* evaluation shallow); once the prefix is empty every later match clears it again
RECURSIVE ShrinkCommonPrefixIn(_, _, _, _, _)
ShrinkCommonPrefixIn(flags, order, first, last, prefix) ==
  IF first > last THEN prefix
  ELSE IF first = last THEN ShrinkCommonPrefix(prefix, flags[order[first]].name)
  ELSE LET mid  == (first + last) \div 2
           left == ShrinkCommonPrefixIn(flags, order, first, mid, prefix)
       IN  IF left = EmptyString THEN EmptyString
           ELSE ShrinkCommonPrefixIn(flags, order, mid + 1, last, left)

\* FindMatchingFlags: [all_matches, longest_common_prefix]
FindMatchingFlags(flags, opts, match_token) ==
  LET all_matches ==
        { it \in 1..Len(flags) : DoesSingleFlagMatch(flags[it], opts, match_token) }
      order == InOrder(all_matches)
  IN  [ all_matches |-> all_matches,
        longest_common_prefix |->
          IF all_matches = {} THEN EmptyString
          ELSE ShrinkCommonPrefixIn(flags, order, 2, Len(order), flags[order[1]].name) ]

(***************************************************************************)
(* 3) Categorize matches                                                   *)
(***************************************************************************)
NoNotableFlags ==
  [ perfect_match_flag |-> {}, module_flags |-> {}, package_flags |-> {},
    most_common_flags |-> {}, subpackage_flags |-> {} ]

\* mutant: package_dir is searched for although it is empty
CategoriesOfFlag_NoEmptyTest(flag, search_token, mod, pkg) ==
  LET pos   == Find(flag.filename, pkg)
      slash == IF pos # NPOS
               THEN FindFrom(flag.filename, << PATH_SEPARATOR >>, pos + Len(pkg) + 1)
               ELSE NPOS
  IN  IF flag.name = search_token THEN {"perfect_match_flag"}
      ELSE IF mod # EmptyString /\ flag.filename = mod THEN {"module_flags"}
      ELSE IF pos # NPOS /\ slash = NPOS THEN {"package_flags"}
      ELSE IF pos # NPOS /\ slash # NPOS THEN {"subpackage_flags"}
      ELSE {}

\* mutant: the separator is searched right behind package_dir
CategoriesOfFlag_SlashBehindDir(flag, search_token, mod, pkg) ==
  LET pos   == IF pkg # EmptyString THEN Find(flag.filename, pkg) ELSE NPOS
      slash == IF pos # NPOS
               THEN FindFrom(flag.filename, << PATH_SEPARATOR >>, pos + Len(pkg))
               ELSE NPOS
  IN  IF flag.name = search_token THEN {"perfect_match_flag"}
      ELSE IF mod # EmptyString /\ flag.filename = mod THEN {"module_flags"}
      ELSE IF pkg # EmptyString /\ pos # NPOS /\ slash = NPOS THEN {"package_flags"}
      ELSE IF pkg # EmptyString /\ pos # NPOS /\ slash # NPOS THEN {"subpackage_flags"}
      ELSE {}

\* mutant: the four tests are made one after the other, not as an else-if chain
CategoriesOfFlag_Independent(flag, search_token, mod, pkg) ==
  LET pos   == IF pkg # EmptyString THEN Find(flag.filename, pkg) ELSE NPOS
      slash == IF pos # NPOS
               THEN FindFrom(flag.filename, << PATH_SEPARATOR >>, pos + Len(pkg) + 1)
               ELSE NPOS
  IN  (IF flag.name = search_token THEN {"perfect_match_flag"} ELSE {})
        \cup (IF mod # EmptyString /\ flag.filename = mod THEN {"module_flags"} ELSE {})
        \cup (IF pkg # EmptyString /\ pos # NPOS /\ slash = NPOS
              THEN {"package_flags"} ELSE {})
        \cup (IF pkg # EmptyString /\ pos # NPOS /\ slash # NPOS
              THEN {"subpackage_flags"} ELSE {})

\* the sets of NotableFlags one matching flag is inserted into
CategoriesOfFlag(flag, search_token, mod, pkg) ==
  LET pos   == IF pkg # EmptyString THEN Find(flag.filename, pkg) ELSE NPOS
      slash == IF pos # NPOS
               THEN FindFrom(flag.filename, << PATH_SEPARATOR >>, pos + Len(pkg) + 1)
               ELSE NPOS
  IN  IF flag.name = search_token THEN {"perfect_match_flag"}
      ELSE IF mod # EmptyString /\ flag.filename = mod THEN {"module_flags"}
      ELSE IF pkg # EmptyString /\ pos # NPOS /\ slash = NPOS THEN {"package_flags"}
      ELSE IF pkg # EmptyString /\ pos # NPOS /\ slash # NPOS THEN {"subpackage_flags"}
      ELSE {}

CategorizeAllMatchingFlags(flags, all_matches, search_token, mod, pkg) ==
  [ set \in DOMAIN NoNotableFlags |->
      { it \in all_matches : set \in CategoriesOfFlag(flags[it], search_token, mod, pkg) } ]

\* the seven suffixes of TryFindModuleAndPackageDir, in the order pushed
ModuleSuffixes ==
  << << "." >>,
     << "-", "m", "a", "i", "n", "." >>,
     << "_", "m", "a", "i", "n", "." >>,
     << "-", "t", "e", "s", "t", "." >>,
     << "_", "t", "e", "s", "t", "." >>,
     << "-", "u", "n", "i", "t", "t", "e", "s", "t", "." >>,
     << "_", "u", "n", "i", "t", "t", "e", "s", "t", "." >> >>

\* StringPrintf("/%s%s", ProgramInvocationShortName(), suffix)
PushNameWithSuffix(short_name, suffix) == << "/" >> \o short_name \o suffix

\* the inner loop: some suffix occurs in the file name
HasModuleSuffix(filename, short_name) ==
  \E k \in 1..Len(ModuleSuffixes) :
    Find(filename, PushNameWithSuffix(short_name, ModuleSuffixes[k])) # NPOS

\* mutant: the loop over the suffixes is the outer loop
TryFindModuleAndPackageDir_SuffixesOuter(flags, short_name) ==
  LET Has(it, k) ==
        Find(flags[it].filename, PushNameWithSuffix(short_name, ModuleSuffixes[k])) # NPOS
      found == { k \in 1..Len(ModuleSuffixes) : \E it \in 1..Len(flags) : Has(it, k) }
  IN  IF found = {} THEN [module |-> EmptyString, package_dir |-> EmptyString]
      ELSE LET k   == CHOOSE f \in found : \A other \in found : f <= other
               it  == CHOOSE h \in 1..Len(flags) :
                        Has(h, k) /\ \A other \in 1..Len(flags) : Has(other, k) => h <= other
               sep == RFindChar(flags[it].filename, PATH_SEPARATOR)
           IN  [ module      |-> flags[it].filename,
                 package_dir |-> SubstrTo(flags[it].filename,
                                          IF sep = NPOS THEN 0 ELSE sep) ]

\* TryFindModuleAndPackageDir: [module, package_dir], from the first flag in
\* the order of the vector whose file name has one of the suffixes
TryFindModuleAndPackageDir(flags, short_name) ==
  LET hits == { it \in 1..Len(flags) : HasModuleSuffix(flags[it].filename, short_name) }
  IN  IF hits = {} THEN [module |-> EmptyString, package_dir |-> EmptyString]
      ELSE LET it  == CHOOSE h \in hits : \A other \in hits : h <= other
               sep == RFindChar(flags[it].filename, PATH_SEPARATOR)
           IN  [ module      |-> flags[it].filename,
                 package_dir |-> SubstrTo(flags[it].filename,
                                          IF sep = NPOS THEN 0 ELSE sep) ]

(***************************************************************************)
(* 4) Finalize and trim output flag set                                    *)
(***************************************************************************)
DesiredLines == 98
ReturnAllLines == 999999

\* mutant: the limit does not depend on return_all_matching_flags
MaxDesiredLines_Fixed(opts) == DesiredLines

\* max_desired_lines
MaxDesiredLines(opts) ==
  IF opts.return_all_matching_flags THEN ReturnAllLines ELSE DesiredLines

\* DisplayInfoGroup::SizeInLines
SizeInLines(g) ==
  Cardinality(g.group) + 1
    + (IF g.header # "" THEN 1 ELSE 0)
    + (IF g.footer # "" THEN 1 ELSE 0)

\* RetrieveUnusedFlags
RetrieveUnusedFlags(matches, nf) ==
  { it \in matches :
      ~ ( \/ it \in nf.perfect_match_flag
          \/ it \in nf.module_flags
          \/ it \in nf.package_flags
          \/ it \in nf.most_common_flags
          \/ it \in nf.subpackage_flags ) }

\* mutant: the package group is considered before the module group
NotableGroups_PackageFirst(nf) ==
  << [ set |-> "perfect_match_flag", header |-> "", footer |-> "==========",
       group |-> nf.perfect_match_flag ],
     [ set |-> "package_flags", header |-> "-* Matching package flags *-",
       footer |-> "============================", group |-> nf.package_flags ],
     [ set |-> "module_flags", header |-> "-* Matching module flags *-",
       footer |-> "===========================", group |-> nf.module_flags ],
     [ set |-> "most_common_flags", header |-> "-* Commonly used flags *-",
       footer |-> "=========================", group |-> nf.most_common_flags ],
     [ set |-> "subpackage_flags", header |-> "-* Matching sub-package flags *-",
       footer |-> "================================", group |-> nf.subpackage_flags ] >>

\* the header and footer of each notable group, in the order they are considered
NotableGroups(nf) ==
  << [ set |-> "perfect_match_flag", header |-> "", footer |-> "==========",
       group |-> nf.perfect_match_flag ],
     [ set |-> "module_flags", header |-> "-* Matching module flags *-",
       footer |-> "===========================", group |-> nf.module_flags ],
     [ set |-> "package_flags", header |-> "-* Matching package flags *-",
       footer |-> "============================", group |-> nf.package_flags ],
     [ set |-> "most_common_flags", header |-> "-* Commonly used flags *-",
       footer |-> "=========================", group |-> nf.most_common_flags ],
     [ set |-> "subpackage_flags", header |-> "-* Matching sub-package flags *-",
       footer |-> "================================", group |-> nf.subpackage_flags ] >>

\* the group of obscure flags
ObscureGroup(matches, nf) ==
  [ set |-> "obscure_flags", header |-> "-* Other flags *-", footer |-> "",
    group |-> RetrieveUnusedFlags(matches, nf) ]

\* one "if (lines_so_far < max_desired_lines && !group.empty())" of the first pass;
\* the perfect match group is taken whatever lines_so_far is
ConsiderGroup(acc, g, max_desired_lines) ==
  IF (g.set = "perfect_match_flag" \/ acc.lines_so_far < max_desired_lines)
     /\ g.group # {}
  THEN [ lines_so_far  |-> acc.lines_so_far + SizeInLines(g),
         output_groups |-> Append(acc.output_groups, g) ]
  ELSE acc

RECURSIVE ConsiderGroupsFrom(_, _, _, _)
ConsiderGroupsFrom(acc, groups, k, max_desired_lines) ==
  IF k > Len(groups) THEN acc
  ELSE ConsiderGroupsFrom(ConsiderGroup(acc, groups[k], max_desired_lines),
                          groups, k + 1, max_desired_lines)

\* first pass of FinalizeCompletionOutput: [lines_so_far, output_groups]
ChooseOutputGroups(matches, nf, max_desired_lines) ==
  LET notable == ConsiderGroupsFrom([lines_so_far |-> 0, output_groups |-> << >>],
                                    NotableGroups(nf), 1, max_desired_lines)
  IN  IF notable.lines_so_far < max_desired_lines
      THEN ConsiderGroup(notable, ObscureGroup(matches, nf), max_desired_lines)
      ELSE notable

(***************************************************************************)
(* 5) Output matches.  A line is a record: the text of a header, footer or  *)
(* marker, or the flag a flag line renders and its format.                 *)
(***************************************************************************)
TextLine(kind, indent, text) ==
  [ kind |-> kind, indent |-> indent, text |-> text, str |-> EmptyString,
    flag |-> 0, long |-> FALSE ]

\* GetLongFlagLine or GetShortFlagLine of flag it
FlagLine(indent, it, long_output_format) ==
  [ kind |-> "flag", indent |-> indent, text |-> "", str |-> EmptyString,
    flag |-> it, long |-> long_output_format ]

HiddenLine == TextLine("marker", 0, "~ (Remaining flags hidden) ~")
TildeLine == TextLine("marker", 0, "~")

\* the text "--%s" of the common prefix, written without a line end
PrefixLine(prefix) ==
  [ kind |-> "prefix", indent |-> 0, text |-> "--", str |-> prefix,
    flag |-> 0, long |-> FALSE ]

\* one iteration of the for loop of OutputSingleGroupWithLimit
OutputFlagLine(it, indent, long_output_format, acc) ==
  IF acc.remaining_line_limit > 0
  THEN [ remaining_line_limit       |-> acc.remaining_line_limit - 1,
         completion_elements_output |-> acc.completion_elements_output + 1,
         completions |-> Append(acc.completions,
                                FlagLine(indent, it, long_output_format)) ]
  ELSE acc

\* the for loop over order[first..last], left to right, ended by a limit of 0
\* (the range is halved to keep the evaluation shallow)
RECURSIVE OutputFlagLines(_, _, _, _, _, _)
OutputFlagLines(order, first, last, indent, long_output_format, acc) ==
  IF first > last THEN acc
  ELSE IF first = last
  THEN OutputFlagLine(order[first], indent, long_output_format, acc)
  ELSE LET mid  == (first + last) \div 2
           left == OutputFlagLines(order, first, mid, indent, long_output_format, acc)
       IN  IF left.remaining_line_limit > 0
           THEN OutputFlagLines(order, mid + 1, last, indent, long_output_format, left)
           ELSE left

\* mutant: the footer is written without looking at the limit
OutputSingleGroupWithLimit_FooterAlways(group, indent, header, footer, long_output_format, acc) ==
  IF group = {} THEN acc
  ELSE IF header # "" /\ acc.remaining_line_limit < 2 THEN acc
  ELSE
    LET headed ==
          IF header # ""
          THEN [ acc EXCEPT
                   !.remaining_line_limit = @ - 2,
                   !.completions = @ \o << TextLine("header", indent, header),
                                           TextLine("underline", indent, header) >> ]
          ELSE acc
        listed == OutputFlagLines(InOrder(group), 1, Cardinality(group), indent,
                                  long_output_format, headed)
    IN  IF footer # ""
        THEN [ listed EXCEPT
                 !.remaining_line_limit = @ - 1,
                 !.completions = Append(@, TextLine("footer", indent, footer)) ]
        ELSE listed

\* mutant: with fewer than two lines left the header is left out, the flags are not
OutputSingleGroupWithLimit_HeaderLeftOut(group, indent, header, footer, long_output_format, acc) ==
  IF group = {} THEN acc
  ELSE
    LET headed ==
          IF header # "" /\ acc.remaining_line_limit >= 2
          THEN [ acc EXCEPT
                   !.remaining_line_limit = @ - 2,
                   !.completions = @ \o << TextLine("header", indent, header),
                                           TextLine("underline", indent, header) >> ]
          ELSE acc
        listed == OutputFlagLines(InOrder(group), 1, Cardinality(group), indent,
                                  long_output_format, headed)
    IN  IF footer # "" /\ listed.remaining_line_limit >= 1
        THEN [ listed EXCEPT
                 !.remaining_line_limit = @ - 1,
                 !.completions = Append(@, TextLine("footer", indent, footer)) ]
        ELSE listed

\* OutputSingleGroupWithLimit on acc = [remaining_line_limit,
\* completion_elements_output, completions]
OutputSingleGroupWithLimit(group, indent, header, footer, long_output_format, acc) ==
  IF group = {} THEN acc
  ELSE IF header # "" /\ acc.remaining_line_limit < 2 THEN acc
  ELSE
    LET headed ==
          IF header # ""
          THEN [ acc EXCEPT
                   !.remaining_line_limit = @ - 2,
                   !.completions = @ \o << TextLine("header", indent, header),
                                           TextLine("underline", indent, header) >> ]
          ELSE acc
        listed == OutputFlagLines(InOrder(group), 1, Cardinality(group), indent,
                                  long_output_format, headed)
    IN  IF footer # "" /\ listed.remaining_line_limit >= 1
        THEN [ listed EXCEPT
                 !.remaining_line_limit = @ - 1,
                 !.completions = Append(@, TextLine("footer", indent, footer)) ]
        ELSE listed

(***************************************************************************)
(* Inputs: the completion word, the program's short name and the flags.    *)
(***************************************************************************)
MaxFlags == 2
MaxFill == 100
FillWindow == 6

ProgramNames == { << "p" >> }

FlagNames == { << "a" >>, << "a", "b" >>, << "c" >> }

FileNames ==
  { << "d", "/", "p", ".", "c" >>,
    << "d", "/", "q", ".", "c" >>,
    << "d", "/", "s", "/", "q", ".", "c" >>,
    << "e", "/", "b", ".", "c" >> }

Descriptions == { << >>, << "a", "b" >> }

Flags ==
  [ name : FlagNames, filename : FileNames, description : Descriptions ]

\* the sequences of at most n flags with different names
RECURSIVE FlagLists(_)
FlagLists(n) ==
  IF n = 0 THEN { << >> }
  ELSE LET shorter == FlagLists(n - 1)
       IN  shorter \cup
           { Append(l, f) : l \in { x \in shorter : Len(x) = n - 1 }, f \in Flags }

DistinctNames(l) ==
  \A i \in 1..Len(l) : \A j \in 1..Len(l) : l[i].name = l[j].name => i = j

Digit(d) == << "0", "1", "2", "3", "4", "5", "6", "7", "8", "9" >>[d + 1]

RECURSIVE Decimal(_)
Decimal(n) ==
  IF n < 10 THEN << Digit(n) >> ELSE Append(Decimal(n \div 10), Digit(n % 10))

\* n flags a0, a1, ... defined in one file
ManyFlags(n, file) ==
  [ i \in 1..n |->
      [ name |-> << "a" >> \o Decimal(i - 1), filename |-> file,
        description |-> << >> ] ]

FillCounts == (MaxFill - FillWindow)..MaxFill

\* a few flags with any names, files and descriptions
FewFlags == { l \in FlagLists(MaxFlags) : DistinctNames(l) }

\* at most one flag named a or ab, then MaxFill - FillWindow .. MaxFill flags
\* a0, a1, ... of one file
ManyFlagsLists ==
  { l \o ManyFlags(n, file) :
      l \in { x \in FlagLists(1) :
                \A i \in 1..Len(x) : /\ x[i].description = << >>
                                     /\ x[i].name \in { << "a" >>, << "a", "b" >> } },
      n \in FillCounts, file \in FileNames }

SearchTokens == { << >>, << "a" >>, << "a", "b" >>, << "b" >> }

SearchMarks ==
  { << >>, << "?" >>, << "?", "?" >>, << "?", "?", "?" >>,
    << "+" >>, << "?", "+" >>, << "+", "?", "?" >>, << "?", "?", "+", "?" >> }

\* a token with its marks, and the marks alone behind two dashes
CursorWords ==
  { token \o marks : token \in SearchTokens, marks \in SearchMarks }
    \cup { << "-", "-" >> \o marks : marks \in SearchMarks }

\* the words tried on the long lists of flags
ShortCursorWords == { w \in CursorWords : Len(w) <= 2 }

(***************************************************************************)
(* The state machine                                                       *)
(***************************************************************************)
\* the state before HandleCommandLineCompletions is called
Constructed ==
  /\ pc = "start"
  /\ program_name \in ProgramNames
  /\ canonical_token = EmptyString
  /\ options = DefaultOptions
  /\ matching_flags = {}
  /\ longest_common_prefix = EmptyString
  /\ module = EmptyString
  /\ package_dir = EmptyString
  /\ notable_flags = NoNotableFlags
  /\ output_groups = << >>
  /\ group_it = 1
  /\ perfect_match_found = FALSE
  /\ remaining_lines = 0
  /\ completions_output = 0
  /\ completions = << >>
  /\ stdout = << >>
  /\ exited = FALSE

\* DEFINE_int32(tab_completion_columns, 80, ...)
DefaultColumns == 80

\* no flag line is being rendered
NotRendering ==
  /\ tab_completion_columns = DefaultColumns
  /\ render_pc = "none"
  /\ line_indentation = EmptyString
  /\ info = << >>
  /\ output = EmptyString

\* gflags_completions.sh does not run
NoScript ==
  /\ script_pc = "none"
  /\ script_args = << >>
  /\ comp_line = << >>
  /\ type_p = << >>
  /\ executable_files = {}
  /\ completion_word = EmptyString
  /\ binary = ""
  /\ params = EmptyString
  /\ executed = << >>
  /\ exit_status = -1

Init ==
  /\ \/ cursor_word \in CursorWords /\ all_flags \in FewFlags
     \/ cursor_word \in ShortCursorWords /\ all_flags \in ManyFlagsLists
  /\ Constructed
  /\ NotRendering
  /\ NoScript

\* mutant: no early return on an empty word
HandleCommandLineCompletions_NoReturn ==
  /\ pc = "start"
  /\ pc' = "canonicalize"
  /\ UNCHANGED << program_name, cursor_word, all_flags, canonical_token, options,
                  matching_flags, longest_common_prefix, module, package_dir,
                  notable_flags, output_groups, group_it, perfect_match_found,
                  remaining_lines, completions_output, completions, stdout, exited >>
  /\ UNCHANGED << render_vars, script_vars >>

\* HandleCommandLineCompletions: return at once on an empty word
HandleCommandLineCompletions ==
  /\ pc = "start"
  /\ pc' = IF cursor_word = EmptyString THEN "returned" ELSE "canonicalize"
  /\ UNCHANGED << program_name, cursor_word, all_flags, canonical_token, options,
                  matching_flags, longest_common_prefix, module, package_dir,
                  notable_flags, output_groups, group_it, perfect_match_found,
                  remaining_lines, completions_output, completions, stdout, exited >>
  /\ UNCHANGED << render_vars, script_vars >>

\* PrintFlagCompletionInfo, step 1
Canonicalize ==
  /\ pc = "canonicalize"
  /\ LET r == CanonicalizeCursorWordAndSearchOptions(cursor_word, options)
     IN  /\ canonical_token' = r.token
         /\ options' = r.options
  /\ pc' = "find"
  /\ UNCHANGED << program_name, cursor_word, all_flags,
                  matching_flags, longest_common_prefix, module, package_dir,
                  notable_flags, output_groups, group_it, perfect_match_found,
                  remaining_lines, completions_output, completions, stdout, exited >>
  /\ UNCHANGED << render_vars, script_vars >>

\* PrintFlagCompletionInfo, step 2
FindMatches ==
  /\ pc = "find"
  /\ LET r == FindMatchingFlags(all_flags, options, canonical_token)
     IN  /\ matching_flags' = r.all_matches
         /\ longest_common_prefix' = r.longest_common_prefix
  /\ pc' = "matched"
  /\ UNCHANGED << program_name, cursor_word, all_flags, canonical_token, options,
                  module, package_dir,
                  notable_flags, output_groups, group_it, perfect_match_found,
                  remaining_lines, completions_output, completions, stdout, exited >>
  /\ UNCHANGED << render_vars, script_vars >>

\* fprintf(stdout, "--%s", longest_common_prefix.c_str()); return
PrintCommonPrefix ==
  /\ pc = "matched"
  /\ Len(longest_common_prefix) > Len(canonical_token)
  /\ stdout' = << PrefixLine(longest_common_prefix) >>
  /\ pc' = "exit"
  /\ UNCHANGED << program_name, cursor_word, all_flags, canonical_token, options,
                  matching_flags, longest_common_prefix, module, package_dir,
                  notable_flags, output_groups, group_it, perfect_match_found,
                  remaining_lines, completions_output, completions, exited >>
  /\ UNCHANGED << render_vars, script_vars >>

\* mutant: returns without looking at the matches
NoMatchingFlags_Always ==
  /\ pc = "matched"
  /\ ~ (Len(longest_common_prefix) > Len(canonical_token))
  /\ pc' = "exit"
  /\ UNCHANGED << program_name, cursor_word, all_flags, canonical_token, options,
                  matching_flags, longest_common_prefix, module, package_dir,
                  notable_flags, output_groups, group_it, perfect_match_found,
                  remaining_lines, completions_output, completions, stdout, exited >>
  /\ UNCHANGED << render_vars, script_vars >>

\* if (matching_flags.empty()) return
NoMatchingFlags ==
  /\ pc = "matched"
  /\ ~ (Len(longest_common_prefix) > Len(canonical_token))
  /\ matching_flags = {}
  /\ pc' = "exit"
  /\ UNCHANGED << program_name, cursor_word, all_flags, canonical_token, options,
                  matching_flags, longest_common_prefix, module, package_dir,
                  notable_flags, output_groups, group_it, perfect_match_found,
                  remaining_lines, completions_output, completions, stdout, exited >>
  /\ UNCHANGED << render_vars, script_vars >>

\* PrintFlagCompletionInfo, step 3
FindModuleAndPackageDir ==
  /\ pc = "matched"
  /\ ~ (Len(longest_common_prefix) > Len(canonical_token))
  /\ matching_flags # {}
  /\ LET r == TryFindModuleAndPackageDir(all_flags, program_name)
     IN  /\ module' = r.module
         /\ package_dir' = r.package_dir
  /\ pc' = "categorize"
  /\ UNCHANGED << program_name, cursor_word, all_flags, canonical_token, options,
                  matching_flags, longest_common_prefix,
                  notable_flags, output_groups, group_it, perfect_match_found,
                  remaining_lines, completions_output, completions, stdout, exited >>
  /\ UNCHANGED << render_vars, script_vars >>

\* PrintFlagCompletionInfo, step 4
Categorize ==
  /\ pc = "categorize"
  /\ notable_flags' = CategorizeAllMatchingFlags(all_flags, matching_flags,
                                                canonical_token, module, package_dir)
  /\ pc' = "finalize"
  /\ UNCHANGED << program_name, cursor_word, all_flags, canonical_token, options,
                  matching_flags, longest_common_prefix, module, package_dir,
                  output_groups, group_it, perfect_match_found,
                  remaining_lines, completions_output, completions, stdout, exited >>
  /\ UNCHANGED << render_vars, script_vars >>

\* mutant: the first group is output in the long format whatever it is
ChooseGroups_LongFirst ==
  /\ pc = "finalize"
  /\ output_groups' = ChooseOutputGroups(matching_flags, notable_flags,
                                         MaxDesiredLines(options)).output_groups
  /\ perfect_match_found' = TRUE
  /\ remaining_lines' = MaxDesiredLines(options)
  /\ completions_output' = 0
  /\ group_it' = 1
  /\ pc' = "output"
  /\ UNCHANGED << program_name, cursor_word, all_flags, canonical_token, options,
                  matching_flags, longest_common_prefix, module, package_dir,
                  notable_flags, completions, stdout, exited >>
  /\ UNCHANGED << render_vars, script_vars >>

\* FinalizeCompletionOutput, first pass: choose the groups
ChooseGroups ==
  /\ pc = "finalize"
  /\ output_groups' = ChooseOutputGroups(matching_flags, notable_flags,
                                         MaxDesiredLines(options)).output_groups
  /\ perfect_match_found' = (notable_flags.perfect_match_flag # {})
  /\ remaining_lines' = MaxDesiredLines(options)
  /\ completions_output' = 0
  /\ group_it' = 1
  /\ pc' = "output"
  /\ UNCHANGED << program_name, cursor_word, all_flags, canonical_token, options,
                  matching_flags, longest_common_prefix, module, package_dir,
                  notable_flags, completions, stdout, exited >>
  /\ UNCHANGED << render_vars, script_vars >>

\* mutant: perfect_match_found is not reset after the first group
OutputGroup_LongStays ==
  /\ pc = "output"
  /\ group_it <= Len(output_groups)
  /\ LET g == output_groups[group_it]
         indent == (Len(output_groups) - 1) - (group_it - 1)
         r == OutputSingleGroupWithLimit(g.group, indent, g.header, g.footer,
                perfect_match_found,
                [ remaining_line_limit       |-> remaining_lines,
                  completion_elements_output |-> completions_output,
                  completions                |-> completions ])
     IN  /\ remaining_lines' = r.remaining_line_limit
         /\ completions_output' = r.completion_elements_output
         /\ completions' = r.completions
  /\ group_it' = group_it + 1
  /\ UNCHANGED << pc, perfect_match_found, program_name, cursor_word, all_flags, canonical_token, options,
                  matching_flags, longest_common_prefix, module, package_dir,
                  notable_flags, output_groups, stdout, exited >>
  /\ UNCHANGED << render_vars, script_vars >>

\* FinalizeCompletionOutput, second pass: one iteration of the loop over the groups
OutputGroup ==
  /\ pc = "output"
  /\ group_it <= Len(output_groups)
  /\ LET g == output_groups[group_it]
         indent == (Len(output_groups) - 1) - (group_it - 1)
         r == OutputSingleGroupWithLimit(g.group, indent, g.header, g.footer,
                perfect_match_found,
                [ remaining_line_limit       |-> remaining_lines,
                  completion_elements_output |-> completions_output,
                  completions                |-> completions ])
     IN  /\ remaining_lines' = r.remaining_line_limit
         /\ completions_output' = r.completion_elements_output
         /\ completions' = r.completions
  /\ perfect_match_found' = FALSE
  /\ group_it' = group_it + 1
  /\ UNCHANGED << pc, program_name, cursor_word, all_flags, canonical_token, options,
                  matching_flags, longest_common_prefix, module, package_dir,
                  notable_flags, output_groups, stdout, exited >>
  /\ UNCHANGED << render_vars, script_vars >>

\* mutant: force_no_update is set on both branches
FinalVerdict_AlwaysSet(elements_output, matches, lines) ==
  IF elements_output # Cardinality(matches)
  THEN [ force_no_update |-> TRUE, completions |-> Append(lines, HiddenLine) ]
  ELSE [ force_no_update |-> TRUE, completions |-> lines ]

\* what FinalizeCompletionOutput does after the loop: [force_no_update, completions]
FinalVerdict(elements_output, matches, lines) ==
  IF elements_output # Cardinality(matches)
  THEN [ force_no_update |-> FALSE, completions |-> Append(lines, HiddenLine) ]
  ELSE [ force_no_update |-> TRUE, completions |-> lines ]

\* FinalizeCompletionOutput, the end
FinishOutput ==
  /\ pc = "output"
  /\ group_it > Len(output_groups)
  /\ LET r == FinalVerdict(completions_output, matching_flags, completions)
     IN  /\ options' = [ options EXCEPT !.force_no_update = r.force_no_update ]
         /\ completions' = r.completions
  /\ pc' = "print"
  /\ UNCHANGED << program_name, cursor_word, all_flags, canonical_token,
                  matching_flags, longest_common_prefix, module, package_dir,
                  notable_flags, output_groups, group_it, perfect_match_found,
                  remaining_lines, completions_output, stdout, exited >>
  /\ UNCHANGED << render_vars, script_vars >>

\* PrintFlagCompletionInfo, the end: the "~" line and the print loop
PrintCompletions ==
  /\ pc = "print"
  /\ completions' = IF options.force_no_update
                    THEN Append(completions, TildeLine) ELSE completions
  /\ stdout' = completions'
  /\ pc' = "exit"
  /\ UNCHANGED << program_name, cursor_word, all_flags, canonical_token, options,
                  matching_flags, longest_common_prefix, module, package_dir,
                  notable_flags, output_groups, group_it, perfect_match_found,
                  remaining_lines, completions_output, exited >>
  /\ UNCHANGED << render_vars, script_vars >>

\* HandleCommandLineCompletions: gflags_exitfunc(0)
Exit ==
  /\ pc = "exit"
  /\ exited' = TRUE
  /\ pc' = "exited"
  /\ UNCHANGED << program_name, cursor_word, all_flags, canonical_token, options,
                  matching_flags, longest_common_prefix, module, package_dir,
                  notable_flags, output_groups, group_it, perfect_match_found,
                  remaining_lines, completions_output, completions, stdout >>
  /\ UNCHANGED << render_vars, script_vars >>

Next ==
  \/ HandleCommandLineCompletions
  \/ Canonicalize
  \/ FindMatches
  \/ PrintCommonPrefix
  \/ NoMatchingFlags
  \/ FindModuleAndPackageDir
  \/ Categorize
  \/ ChooseGroups
  \/ OutputGroup
  \/ FinishOutput
  \/ PrintCompletions
  \/ Exit

Spec == Init /\ [][Next]_vars

(***************************************************************************)
(* The search word alone: every word of at most MaxWordLen characters is   *)
(* canonicalized, with no flags registered.                                *)
(***************************************************************************)
MaxWordLen == 5

WordCharacters == { "\"", "-", "?", "+", "a" }

RECURSIVE WordsOfLength(_)
WordsOfLength(n) ==
  IF n = 0 THEN { << >> }
  ELSE { Append(w, c) : w \in WordsOfLength(n - 1), c \in WordCharacters }

AllWords == UNION { WordsOfLength(n) : n \in 0..MaxWordLen }

InitCanonicalize ==
  /\ cursor_word \in AllWords
  /\ all_flags = << >>
  /\ Constructed
  /\ NotRendering
  /\ NoScript

NextCanonicalize ==
  \/ HandleCommandLineCompletions
  \/ Canonicalize

SpecCanonicalize == InitCanonicalize /\ [][NextCanonicalize]_vars

(***************************************************************************)
(* The files of the flags: at most MaxOwnFlags flags, defined in files in  *)
(* and around the directory of the program's own file.                     *)
(***************************************************************************)
MaxOwnFlags == 3

OwnFileNames ==
  { << "d", "/", "p", ".", "c" >>,
    << "e", "/", "p", "_", "t", "e", "s", "t", ".", "c" >>,
    << "/", "p", ".", "c" >>,
    << "d", "/", "q", ".", "c" >>,
    << "d", "/", "s", "/", "q", ".", "c" >>,
    << "d", "x", "/", "q", ".", "c" >>,
    << "e", "/", "d", ".", "c" >>,
    << "x", ".", "c" >> }

OwnFlags == [ name : FlagNames, filename : OwnFileNames, description : { << >> } ]

RECURSIVE OwnFlagLists(_)
OwnFlagLists(n) ==
  IF n = 0 THEN { << >> }
  ELSE LET shorter == OwnFlagLists(n - 1)
       IN  shorter \cup
           { Append(l, f) : l \in { x \in shorter : Len(x) = n - 1 }, f \in OwnFlags }

OwnCursorWords == { << "a" >>, << "b" >>, << "-" >> }

InitOwnership ==
  /\ cursor_word \in OwnCursorWords
  /\ all_flags \in { l \in OwnFlagLists(MaxOwnFlags) : DistinctNames(l) }
  /\ Constructed
  /\ NotRendering
  /\ NoScript

SpecOwnership == InitOwnership /\ [][Next]_vars

(***************************************************************************)
(* The line of one flag: GetShortFlagLine and GetLongFlagLine, for a flag  *)
(* info = [name, type, default_value, description, filename], an           *)
(* indentation and a number of columns.                                    *)
(***************************************************************************)
MaxColumns == 12
MaxIndentation == 2
MaxDescription == 6

\* string(n, c)
StringOf(n, c) == [ k \in 1..n |-> c ]

\* s.substr(0, n) for an int n: a negative n converts to a string::size_type
\* above every length, and substr then returns s to its end
SubstrToInt(s, n) == IF n < 0 THEN s ELSE SubstrTo(s, n)

\* s.replace(pos, len, t)
Replace(s, pos, len, t) == SubSeq(s, 1, pos) \o t \o SubSeq(s, pos + len + 1, Len(s))

\* s.replace(pos, len, t, subpos, sublen): t.substr(subpos, sublen) is put in
ReplaceWithPart(s, pos, len, t, subpos, sublen) ==
  Replace(s, pos, len,
          SubSeq(t, subpos + 1,
                 IF subpos + sublen < Len(t) THEN subpos + sublen ELSE Len(t)))

StringType == << "s", "t", "r", "i", "n", "g" >>

RenderInfos ==
  [ name : { << "a" >>, << "a", "b" >> },
    type : { << "b", "o", "o", "l" >>, StringType },
    default_value : { << >>, << "1" >> },
    description : { StringOf(n, "x") : n \in 0..MaxDescription },
    filename : { << "d", "/", "p", ".", "c" >> } ]

\* GetShortFlagLine
GetShortFlagLine(indentation, flag, columns) ==
  LET quote     == IF flag.type = StringType THEN << "'" >> ELSE EmptyString
      prefix    == indentation \o << "-", "-" >> \o flag.name \o << " ", "[" >>
                     \o quote \o flag.default_value \o quote \o << "]", " " >>
      remainder == columns - Len(prefix)
      suffix    == IF remainder > 0
                   THEN IF Len(flag.description) > remainder
                        THEN SubstrToInt(flag.description, remainder - 3)
                               \o << ".", ".", "." >>
                        ELSE flag.description
                   ELSE EmptyString
  IN  prefix \o suffix

InitRender ==
  /\ tab_completion_columns \in 1..MaxColumns
  /\ line_indentation \in { StringOf(n, " ") : n \in 0..MaxIndentation }
  /\ info \in RenderInfos
  /\ output = EmptyString
  /\ cursor_word = EmptyString
  /\ all_flags = << >>
  /\ Constructed
  /\ NoScript

InitShortLine == render_pc = "short" /\ InitRender

\* GetShortFlagLine(line_indentation, info)
ShortFlagLine ==
  /\ render_pc = "short"
  /\ output' = GetShortFlagLine(line_indentation, info, tab_completion_columns)
  /\ render_pc' = "returned"
  /\ UNCHANGED << tab_completion_columns, line_indentation, info >>
  /\ UNCHANGED << completion_vars, script_vars >>

NextShortLine == ShortFlagLine

SpecShortLine == InitShortLine /\ [][NextShortLine]_vars

\* DescribeOneFlag: the name behind one dash, the description, the type and
\* the default value; before "type:" and before "default:" stands a space or,
\* where the line is broken, a line break and six spaces
DescribeOneFlag(flag, break_type, break_default) ==
  LET Gap(broken) == IF broken THEN << "\n", " ", " ", " ", " ", " ", " " >> ELSE << " " >>
  IN  << " ", " ", " ", " ", "-" >> \o flag.name \o << " ", "(" >> \o flag.description \o << ")" >>
        \o Gap(break_type) \o << "t", "y", "p", "e", ":", " " >> \o flag.type
        \o Gap(break_default) \o << "d", "e", "f", "a", "u", "l", "t", ":", " " >> \o flag.default_value
        \o << "\n" >>

kNewlineWithIndent == << "\n", " ", " ", " ", " " >>
kDoubledNewlines == << "\n", " ", " ", " ", " ", " ", "\n" >>

\* GetLongFlagLine up to the StringPrintf: the text of DescribeOneFlag with
\* "--" before the name and a line break before the type and the default,
\* between the line of the details and the line of the file
DetailsOfFlag(indentation, flag, described) ==
  LET old_flagname == << "-" >> \o flag.name
      dashed  == Replace(described, Find(described, old_flagname), Len(old_flagname),
                         << "-" >> \o old_flagname)
      typed   == Replace(dashed, Find(dashed, << " ", "t", "y", "p", "e", ":" >>), 1, kNewlineWithIndent)
      valued  == Replace(typed, Find(typed, << " ", "d", "e", "f", "a", "u", "l", "t", ":" >>), 1, kNewlineWithIndent)
  IN  indentation \o << " ", "D", "e", "t", "a", "i", "l", "s", " ", "f", "o", "r", " ", "'", "-", "-" >> \o flag.name \o << "'", ":", "\n" >>
        \o valued \o << " ", " ", " ", " ", "d", "e", "f", "i", "n", "e", "d", ":", " " >> \o flag.filename

\* the first loop of GetLongFlagLine: every doubled line break becomes one
RECURSIVE EliminateDoubledNewlines(_)
EliminateDoubledNewlines(str) ==
  LET newlines == Find(str, kDoubledNewlines)
  IN  IF newlines = NPOS THEN str
      ELSE EliminateDoubledNewlines(
             Replace(str, newlines, Len(kDoubledNewlines), << "\n" >>))

\* one iteration of the second loop of GetLongFlagLine: the line break at
\* newline becomes spaces of line_of_spaces
ReplaceNewlineAt(str, newline, columns) ==
  LET line_of_spaces == StringOf(columns, " ")
      newline_pos    == newline % columns
      missing_spaces == columns - newline_pos
  IN  ReplaceWithPart(str, newline, 1, line_of_spaces, 1, missing_spaces)

InitLongLine == render_pc = "long" /\ InitRender

\* GetLongFlagLine, lines 763 to 782
DescribeFlag ==
  /\ render_pc = "long"
  /\ \E break_type \in BOOLEAN, break_default \in BOOLEAN :
       output' = DetailsOfFlag(line_indentation, info,
                               DescribeOneFlag(info, break_type, break_default))
  /\ render_pc' = "doubled"
  /\ UNCHANGED << tab_completion_columns, line_indentation, info >>
  /\ UNCHANGED << completion_vars, script_vars >>

\* GetLongFlagLine, the loop over the doubled line breaks
DropDoubledNewlines ==
  /\ render_pc = "doubled"
  /\ output' = EliminateDoubledNewlines(output)
  /\ render_pc' = "newlines"
  /\ UNCHANGED << tab_completion_columns, line_indentation, info >>
  /\ UNCHANGED << completion_vars, script_vars >>

\* GetLongFlagLine, one iteration of the loop over the line breaks
ReplaceNewline ==
  /\ render_pc = "newlines"
  /\ Find(output, << "\n" >>) # NPOS
  /\ output' = ReplaceNewlineAt(output, Find(output, << "\n" >>), tab_completion_columns)
  /\ UNCHANGED << tab_completion_columns, render_pc, line_indentation, info >>
  /\ UNCHANGED << completion_vars, script_vars >>

\* GetLongFlagLine: return output
ReturnLongLine ==
  /\ render_pc = "newlines"
  /\ Find(output, << "\n" >>) = NPOS
  /\ render_pc' = "returned"
  /\ UNCHANGED << tab_completion_columns, line_indentation, info, output >>
  /\ UNCHANGED << completion_vars, script_vars >>

NextLongLine ==
  \/ DescribeFlag
  \/ DropDoubledNewlines
  \/ ReplaceNewline
  \/ ReturnLongLine

SpecLongLine == InitLongLine /\ [][NextLongLine]_vars

(***************************************************************************)
(* gflags_completions.sh, the script bash runs for a completion.  Bash     *)
(* appends three arguments to those of the complete entry: the command,    *)
(* the word being completed and the word before it.  An argument is a      *)
(* string of characters; the names of commands are plain strings.          *)
(***************************************************************************)
MaxScriptArgs == 1

\* the arguments of the complete entry
PassedWords == { << "a" >>, << "$", "a" >> }

RECURSIVE ScriptArgsOfLength(_)
ScriptArgsOfLength(n) ==
  IF n = 0 THEN { << >> }
  ELSE { Append(l, w) : l \in ScriptArgsOfLength(n - 1), w \in PassedWords }

PassedArgs == UNION { ScriptArgsOfLength(n) : n \in 0..MaxScriptArgs }

CompletedCommands == { "b", "time", "env" }

\* the word being completed: empty, plain, with a space, a reference to a shell
\* variable, and a word that begins with a quote
CompletedWords ==
  { << >>, << "a" >>, << "a", " ", "a" >>, << "$", "a" >>, << "\"", "a" >> }

CommandLines == { << "time" >>, << "time", "b", "a" >>, << "env", "c", "a" >> }

\* the values the shell variable a can have when eval expands it (unset: empty)
VariableValues == { << >>, << "a" >> }

\* the positional parameter ${!i}
Arg(i) == IF i \in 1..Len(script_args) THEN script_args[i] ELSE EmptyString

TabCompletionWord ==
  << "-", "-", "t", "a", "b", "_", "c", "o", "m", "p", "l", "e", "t", "i", "o", "n",
     "_", "w", "o", "r", "d" >>

\* params="$params \"${!i}\""
QuotedParam(str, arg) == str \o << " ", "\"" >> \o arg \o << "\"" >>

RECURSIVE QuotedParams(_, _, _)
QuotedParams(str, args, i) ==
  IF i > Len(args) THEN str
  ELSE QuotedParams(QuotedParam(str, args[i]), args, i + 1)

\* the characters of the name of a shell variable
NameCharacters == { "a", "b", "c", "_" }

\* eval: the words the shell makes of str from position k on, in or outside
\* double quotes, with the word cur begun or not; a reference to the variable a
\* is replaced by value; [words, error], error for a quote that is not closed
RECURSIVE EvalWords(_, _, _, _, _, _, _)
EvalWords(str, k, in_quotes, cur, begun, words, value) ==
  IF k > Len(str)
  THEN [ words |-> IF begun THEN Append(words, cur) ELSE words, error |-> in_quotes ]
  ELSE
    LET c == str[k]
    IN  IF c = "\""
        THEN EvalWords(str, k + 1, ~ in_quotes, cur, TRUE, words, value)
        ELSE IF c = "$" /\ k < Len(str) /\ str[k + 1] \in NameCharacters
        THEN EvalWords(str, k + 2, in_quotes, cur \o value,
                       begun \/ in_quotes \/ value # EmptyString, words, value)
        ELSE IF c = " " /\ ~ in_quotes
        THEN EvalWords(str, k + 1, FALSE, EmptyString, FALSE,
                       IF begun THEN Append(words, cur) ELSE words, value)
        ELSE EvalWords(str, k + 1, in_quotes, Append(cur, c), TRUE, words, value)

InitLauncher ==
  /\ script_pc = "start"
  /\ script_args \in { passed \o << << command >>, word, << "b" >> >> :
                         passed \in PassedArgs, command \in CompletedCommands,
                         word \in CompletedWords }
  /\ comp_line \in CommandLines
  /\ type_p \in { f \in [ { "b", "c" } -> { "", "/bin/b", "/bin/c" } ] :
                    /\ f["b"] \in { "", "/bin/b" }
                    /\ f["c"] \in { "", "/bin/c" } }
  /\ executable_files \in SUBSET { "b" }
  /\ completion_word = EmptyString
  /\ binary = ""
  /\ params = EmptyString
  /\ executed = << >>
  /\ exit_status = -1
  /\ cursor_word = EmptyString
  /\ all_flags = << >>
  /\ Constructed
  /\ NotRendering

\* $(type -p "$name"): the path of the command name, empty if there is none
TypeP(name) == IF name \in DOMAIN type_p THEN type_p[name] ELSE ""

\* completion_word="${!completion_word_index}"; exit 0 when it is empty
ReadCompletionWord ==
  /\ script_pc = "start"
  /\ completion_word' = Arg(Len(script_args) - 1)
  /\ IF completion_word' = EmptyString
     THEN script_pc' = "exited" /\ exit_status' = 0
     ELSE script_pc' = "binary" /\ UNCHANGED exit_status
  /\ UNCHANGED << script_args, comp_line, type_p, executable_files, binary, params,
                  executed >>
  /\ UNCHANGED << completion_vars, render_vars >>

\* binary="${!binary_index}", or the second word of COMP_LINE behind time and env
FindBinary ==
  /\ script_pc = "binary"
  /\ LET command == Arg(Len(script_args) - 2)[1]
     IN  binary' = IF command \in { "time", "env" }
                   THEN (IF Len(comp_line) >= 2 THEN comp_line[2] ELSE "")
                   ELSE command
  /\ script_pc' = "params"
  /\ UNCHANGED << script_args, comp_line, type_p, executable_files, completion_word,
                  params, executed, exit_status >>
  /\ UNCHANGED << completion_vars, render_vars >>

\* params: the arguments but the last three in quotes, then
\* --tab_completion_word "WORD"
BuildParams ==
  /\ script_pc = "params"
  /\ params' = QuotedParams(EmptyString, SubSeq(script_args, 1, Len(script_args) - 3), 1)
                 \o << " " >> \o TabCompletionWord
                 \o << " ", "\"" >> \o completion_word \o << "\"" >>
  /\ script_pc' = "run"
  /\ UNCHANGED << script_args, comp_line, type_p, executable_files, completion_word,
                  binary, executed, exit_status >>
  /\ UNCHANGED << completion_vars, render_vars >>

\* eval "$candidate 2>/dev/null $params", or the same with $binary, or nothing
RunBinary ==
  /\ script_pc = "run"
  /\ \E value \in VariableValues :
       LET candidate == TypeP(binary)
           command   == IF candidate # "" THEN candidate
                        ELSE IF binary \in executable_files THEN binary
                        ELSE ""
           r         == EvalWords(params, 1, FALSE, EmptyString, FALSE, << >>, value)
       IN  IF command = ""
           THEN executed' = executed /\ exit_status' = 0
           ELSE IF r.error
           THEN executed' = executed /\ exit_status' = 2
           ELSE /\ executed' = Append(executed, [ command |-> command, args |-> r.words ])
                /\ exit_status' \in { 0, 1 }
  /\ script_pc' = "exited"
  /\ UNCHANGED << script_args, comp_line, type_p, executable_files, completion_word,
                  binary, params >>
  /\ UNCHANGED << completion_vars, render_vars >>

NextLauncher ==
  \/ ReadCompletionWord
  \/ FindBinary
  \/ BuildParams
  \/ RunBinary

SpecLauncher == InitLauncher /\ [][NextLauncher]_vars

(***************************************************************************)
(* Properties                                                              *)
(***************************************************************************)
StartsWith(s, t) == Len(t) <= Len(s) /\ SubSeq(s, 1, Len(t)) = t

Contains(s, t) ==
  \E i \in 0..(Len(s) - Len(t)) : SubSeq(s, i + 1, i + Len(t)) = t

\* the flag lines of a sequence of lines
FlagLinesOf(lines) == { k \in 1..Len(lines) : lines[k].kind = "flag" }

\* the match set of token T under the modifiers of opts
MatchSetOf(flags, T, opts) ==
  { it \in 1..Len(flags) :
      \/ StartsWith(flags[it].name, T)
      \/ opts.flag_name_substring_search /\ Contains(flags[it].name, T)
      \/ opts.flag_location_substring_search /\ Contains(flags[it].filename, T)
      \/ opts.flag_description_substring_search /\ Contains(flags[it].description, T) }

\* the matches have been computed
Matched == pc \notin {"start", "returned", "canonicalize", "find"}

\* the shortcut of the common prefix is taken
Shortcut == Matched /\ Len(longest_common_prefix) > Len(canonical_token)

\* the grouped listing is produced
Listing == Matched /\ ~ Shortcut /\ matching_flags # {}

\* C1: the match set is exactly the set of flags whose name starts with the
\* canonical token, or whose name, file or description contains it when the
\* corresponding substring search is on; every flag line that is emitted is the
\* line of a flag of the match set.
C1_MatchSet ==
  Matched =>
    /\ matching_flags = MatchSetOf(all_flags, canonical_token, options)
    /\ \A k \in FlagLinesOf(completions) : completions[k].flag \in matching_flags
    /\ \A k \in FlagLinesOf(stdout) : stdout[k].flag \in matching_flags

\* a flag matched by its file name only is listed, another flag is not matched
C1_Witness ==
  /\ pc = "exited"
  /\ matching_flags # 1..Len(all_flags)
  /\ \E k \in FlagLinesOf(stdout) :
       LET f == all_flags[stdout[k].flag]
       IN  /\ ~ Contains(f.name, canonical_token)
           /\ ~ Contains(f.description, canonical_token)
           /\ Contains(f.filename, canonical_token)

\* the common leading substrings of the names of the matched flags
IsCommonPrefix(p, flags, matches) ==
  \A it \in matches : StartsWith(flags[it].name, p)

\* C2: the shared prefix is the longest common leading substring of the names
\* of all matched flags, and when it is longer than the canonical token the
\* whole output is "--" followed by it: no listing and no marker line.
C2_SharedPrefix ==
  /\ Matched =>
       /\ IsCommonPrefix(longest_common_prefix, all_flags, matching_flags)
       /\ matching_flags # {} =>
            LET name == all_flags[CHOOSE it \in matching_flags : TRUE].name
            IN  \A n \in 0..Len(name) :
                  IsCommonPrefix(SubstrTo(name, n), all_flags, matching_flags)
                    => n <= Len(longest_common_prefix)
       /\ matching_flags = {} => longest_common_prefix = EmptyString
  /\ Shortcut =>
       /\ completions = << >>
       /\ stdout \in { << >>, << PrefixLine(longest_common_prefix) >> }
       /\ pc \in {"exit", "exited"} => stdout = << PrefixLine(longest_common_prefix) >>

\* several flags matched, their common prefix is longer than the token and is
\* shorter than each of their names
C2_Witness ==
  /\ pc = "exited"
  /\ Cardinality(matching_flags) >= 2
  /\ Len(longest_common_prefix) > Len(canonical_token)
  /\ \A it \in matching_flags : Len(all_flags[it].name) > Len(longest_common_prefix)
  /\ stdout = << PrefixLine(longest_common_prefix) >>

\* C3: nothing is written when the cursor word is empty and when no flag
\* matches; in every other case at least one line is written.
C3_EmptyOutput ==
  /\ cursor_word = EmptyString => stdout = << >>
  /\ (Matched /\ MatchSetOf(all_flags, canonical_token, options) = {}) => stdout = << >>
  /\ pc = "returned" => cursor_word = EmptyString
  /\ pc = "exited" =>
       (stdout = << >> <=> MatchSetOf(all_flags, canonical_token, options) = {})

\* a word that is not empty and whose canonical token is: a listing is written
C3_Witness ==
  /\ pc = "exited"
  /\ cursor_word # EmptyString
  /\ canonical_token = EmptyString
  /\ Len(stdout) >= 1
  /\ stdout[1].kind # "prefix"

\* the flags are categorized
Categorized == Listing /\ pc \in {"finalize", "output", "print", "exit", "exited"}

\* the five sets of notable_flags and the flags left in none of them
Buckets ==
  << notable_flags.perfect_match_flag, notable_flags.module_flags,
     notable_flags.package_flags, notable_flags.most_common_flags,
     notable_flags.subpackage_flags,
     RetrieveUnusedFlags(matching_flags, notable_flags) >>

\* C4: after classification the buckets perfectMatch, module, package,
\* mostCommon, subpackage and other are pairwise disjoint and their union is
\* the match set: every matched flag is in exactly one bucket.
C4_Partition ==
  Categorized =>
    LET b == Buckets
    IN  /\ \A i \in 1..6 : \A j \in 1..6 : i # j => b[i] \cap b[j] = {}
        /\ UNION { b[i] : i \in 1..6 } = matching_flags
        /\ \A it \in matching_flags : Cardinality({ i \in 1..6 : it \in b[i] }) = 1

\* the perfect match is defined in the module file, another match is in no set
C4_Witness ==
  /\ Categorized
  /\ \E it \in notable_flags.perfect_match_flag : all_flags[it].filename = module
  /\ RetrieveUnusedFlags(matching_flags, notable_flags) # {}

\* the lines of the groups: headers, underlines, flag lines and footers
GroupLinesOf(lines) == { k \in 1..Len(lines) : lines[k].kind # "marker" }

\* the second pass of FinalizeCompletionOutput has begun
Listed == Listing /\ pc \in {"output", "print", "exit", "exited"}

\* C5: without returnAll the remaining-line counter of a listing never drops
\* below zero, the groups write at most 98 lines together, the flag lines are at
\* most 98 and the whole output, with the one trailing marker line, is at most
\* 99 lines.
C5_Budget ==
  (Listed /\ ~ options.return_all_matching_flags) =>
    /\ remaining_lines >= 0
    /\ Cardinality(GroupLinesOf(completions)) = DesiredLines - remaining_lines
    /\ Cardinality(FlagLinesOf(completions)) = completions_output
    /\ completions_output <= DesiredLines
    /\ Len(completions) <= DesiredLines + 1
    /\ Len(stdout) <= DesiredLines + 1

\* the limit is used up to the last line and flags are left out
C5_Witness ==
  /\ pc = "exited"
  /\ Listed
  /\ ~ options.return_all_matching_flags
  /\ remaining_lines = 0
  /\ Len(stdout) = DesiredLines + 1
  /\ completions_output < Cardinality(matching_flags)

\* C6: a listing ends with exactly one marker line: the hidden-remaining line,
\* with force_no_update false, iff the number of flag lines differs from the
\* size of the match set, and otherwise the "~" line, with force_no_update true.
C6_Marker ==
  (Listing /\ pc \in {"exit", "exited"}) =>
    /\ { k \in 1..Len(stdout) : stdout[k].kind = "marker" } = { Len(stdout) }
    /\ stdout[Len(stdout)] \in { HiddenLine, TildeLine }
    /\ stdout[Len(stdout)] = HiddenLine
         <=> Cardinality(FlagLinesOf(stdout)) # Cardinality(matching_flags)
    /\ stdout[Len(stdout)] = HiddenLine <=> ~ options.force_no_update

\* a listing that ends with the hidden-remaining line
C6_Witness ==
  /\ pc = "exited"
  /\ Listing
  /\ stdout[Len(stdout)] = HiddenLine
  /\ Cardinality(FlagLinesOf(stdout)) > 0

\* C7: with returnAll every matched flag of a listing gets exactly one flag
\* line, whatever the number of matches; the hidden-remaining line is absent
\* and the "~" line is present.
C7_ReturnAll ==
  (Listing /\ options.return_all_matching_flags /\ pc \in {"exit", "exited"}) =>
    /\ LET lines == FlagLinesOf(stdout)
       IN  \A it \in matching_flags :
             Cardinality({ k \in lines : stdout[k].flag = it }) = 1
    /\ \A k \in 1..Len(stdout) : stdout[k] # HiddenLine
    /\ stdout[Len(stdout)] = TildeLine

\* more matches than the limit of 98 lines, all listed
C7_Witness ==
  /\ pc = "exited"
  /\ Listing
  /\ cursor_word[Len(cursor_word)] = "+"
  /\ options.return_all_matching_flags
  /\ Cardinality(matching_flags) > DesiredLines
  /\ Cardinality(FlagLinesOf(stdout)) = Cardinality(matching_flags)

\* the flags whose name is the canonical token
PerfectFlags == { it \in 1..Len(all_flags) : all_flags[it].name = canonical_token }

\* C8: when a flag's name equals the canonical token the shortcut does not
\* fire, the flag is in perfectMatch and in no other bucket, it is rendered in
\* the long format and every other emitted flag in the short format.
C8_PerfectMatch ==
  (pc \notin {"start", "returned", "canonicalize"} /\ PerfectFlags # {}) =>
    /\ Matched => (~ Shortcut /\ PerfectFlags \subseteq matching_flags)
    /\ pc \in {"finalize", "output", "print", "exit", "exited"} =>
         LET b == Buckets
         IN  /\ b[1] = PerfectFlags
             /\ \A it \in PerfectFlags : \A i \in 2..6 : it \notin b[i]
    /\ pc \in {"exit", "exited"} =>
         /\ \A it \in PerfectFlags :
              \E k \in FlagLinesOf(stdout) : stdout[k].flag = it /\ stdout[k].long
         /\ \A k \in FlagLinesOf(stdout) :
              stdout[k].long <=> stdout[k].flag \in PerfectFlags

\* the perfect match is defined in the module file; another flag is listed
C8_Witness ==
  /\ pc = "exited"
  /\ \E it \in PerfectFlags : all_flags[it].filename = module
  /\ \E k \in FlagLinesOf(stdout) : ~ stdout[k].long

\* the number of occurrences of the character c in s
Count(s, c) == Cardinality({ k \in 1..Len(s) : s[k] = c })

\* word is quote, dashes, token and marks: nq quote characters, nd dashes and
\* ns marks, the quote and the dashes taken as far as they go, the marks being
\* at most three "?" and one "+" that no further character of the token extends
Normalizes(word, nq, nd, ns, token, opts) ==
  LET marks == SubSeq(word, Len(word) - ns + 1, Len(word))
      q     == Count(marks, "?")
      p     == Count(marks, "+")
  IN  /\ nq + nd + ns <= Len(word)
      /\ nq = 1 <=> word[1] = "\""
      /\ \A k \in (nq + 1)..(nq + nd) : word[k] = "-"
      /\ nq + nd < Len(word) => word[nq + nd + 1] # "-"
      /\ \A k \in 1..ns : marks[k] \in {"?", "+"}
      /\ q <= 3 /\ p <= 1
      /\ token = SubSeq(word, nq + nd + 1, Len(word) - ns)
      /\ token # EmptyString =>
           /\ token[Len(token)] = "?" => q = 3
           /\ token[Len(token)] = "+" => p = 1
      /\ opts.flag_name_substring_search <=> q >= 1
      /\ opts.flag_location_substring_search <=> q >= 2
      /\ opts.flag_description_substring_search <=> q >= 3
      /\ opts.return_all_matching_flags <=> p = 1

\* C9: normalization of a non-empty word removes at most one leading quote,
\* then all leading dashes, then a trailing run of at most three "?" and at most
\* one "+" (at most four characters, as far as it goes); q stripped "?" set
\* nameSubstring iff q >= 1, locationSubstring iff q >= 2 and
\* descriptionSubstring iff q >= 3, returnAll is set iff a "+" was stripped, and
\* the canonical token is what remains.
C9_Normalization ==
  pc = "find" =>
    /\ cursor_word # EmptyString
    /\ \E nq \in 0..1 : \E nd \in 0..Len(cursor_word) : \E ns \in 0..4 :
         Normalizes(cursor_word, nq, nd, ns, canonical_token, options)
    /\ options.flag_description_substring_search => options.flag_location_substring_search
    /\ options.flag_location_substring_search => options.flag_name_substring_search
    /\ ~ options.force_no_update

\* four marks are stripped and a fifth is left in the token
C9_Witness ==
  /\ pc = "find"
  /\ Len(cursor_word) = Len(canonical_token) + 4
  /\ canonical_token = << "?" >>
  /\ options.flag_description_substring_search
  /\ options.return_all_matching_flags

\* a bound of the number of steps the program has still to take: every step
\* lowers it, and it is 0 when the entry point has returned or the process has
\* been terminated
StepsLeft ==
  CASE pc = "start"        -> 15
    [] pc = "canonicalize" -> 14
    [] pc = "find"         -> 13
    [] pc = "matched"      -> 12
    [] pc = "categorize"   -> 11
    [] pc = "finalize"     -> 10
    [] pc = "output"       -> 3 + (Len(output_groups) + 1 - group_it)
    [] pc = "print"        -> 2
    [] pc = "exit"         -> 1
    [] pc \in {"returned", "exited"} -> 0
    [] OTHER               -> -1

\* C10 as stated: every invocation of the entry point ends with the process
\* terminated, on the empty-token path too.
C10_AlwaysTerminated ==
  pc \in {"returned", "exited"} => exited

\* C10, amended: an invocation with a completion word that is not empty goes
\* on until the process is terminated, after the output is written, whatever
\* the outcome; with an empty word the entry point returns to its caller,
\* nothing is written and the process is not terminated.
C10_TerminatedUnlessEmpty ==
  /\ [](pc \in {"returned", "exited"} => (exited <=> cursor_word # EmptyString))
  /\ [](pc = "returned" => stdout = << >>)
  /\ [](exited => pc = "exited")
  /\ [](StepsLeft >= 0 /\ (StepsLeft = 0 <=> pc \in {"returned", "exited"}))
  /\ [][StepsLeft' < StepsLeft]_vars

\* the entry point has returned on an empty word
C10_Witness ==
  /\ pc = "returned"
  /\ cursor_word = EmptyString
  /\ all_flags # << >>
  /\ ~ exited

\* the rank of a character in the order of std::string's operator<
CharRank(c) ==
  CASE c = "0" -> 48 [] c = "1" -> 49 [] c = "2" -> 50 [] c = "3" -> 51
    [] c = "4" -> 52 [] c = "5" -> 53 [] c = "6" -> 54 [] c = "7" -> 55
    [] c = "8" -> 56 [] c = "9" -> 57 [] c = "a" -> 97 [] c = "b" -> 98
    [] c = "c" -> 99 [] OTHER -> 0

\* s is before t in the order of the names
RECURSIVE NameLess(_, _)
NameLess(s, t) ==
  IF t = EmptyString THEN FALSE
  ELSE IF s = EmptyString THEN TRUE
  ELSE IF Head(s) # Head(t) THEN CharRank(Head(s)) < CharRank(Head(t))
  ELSE NameLess(Tail(s), Tail(t))

\* flag lines k and l are lines of one group
SameGroup(lines, k, l) == lines[k].indent = lines[l].indent

\* C11 as stated: within every emitted group the flag lines are in ascending
\* order of the flag names, whatever the order of the flags in all_flags.
C11_NameOrder ==
  pc = "exited" =>
    LET lines == FlagLinesOf(stdout)
    IN  \A k \in lines :
          (k + 1 \in lines /\ SameGroup(stdout, k, k + 1)) =>
            NameLess(all_flags[stdout[k].flag].name,
                     all_flags[stdout[k + 1].flag].name)

\* C11, amended: within every emitted group the flag lines are in the order in
\* which their flags stand in all_flags, whatever the names of the flags (the
\* flag lines of a group follow one another, each flag after the flags that
\* stand before it in all_flags).
C11_SnapshotOrder ==
  pc \in {"print", "exit", "exited"} =>
    LET lines == FlagLinesOf(completions)
    IN  \A k \in lines :
          IF k + 1 \in lines /\ SameGroup(completions, k, k + 1)
          THEN completions[k].flag < completions[k + 1].flag
          ELSE \A l \in lines : l > k => ~ SameGroup(completions, k, l)

\* a group lists a flag before a flag whose name is smaller
C11_Witness ==
  /\ pc = "exited"
  /\ \E k \in FlagLinesOf(stdout) :
       /\ k + 1 \in FlagLinesOf(stdout)
       /\ SameGroup(stdout, k, k + 1)
       /\ stdout[k].flag < stdout[k + 1].flag
       /\ NameLess(all_flags[stdout[k + 1].flag].name, all_flags[stdout[k].flag].name)

\* the patterns "/<name>.", "/<name>-main.", ... of the program's short name
OwnershipPatterns ==
  { << "/" >> \o program_name \o suffix :
      suffix \in { << "." >>,
                   << "-", "m", "a", "i", "n", "." >>, << "_", "m", "a", "i", "n", "." >>,
                   << "-", "t", "e", "s", "t", "." >>, << "_", "t", "e", "s", "t", "." >>,
                   << "-", "u", "n", "i", "t", "t", "e", "s", "t", "." >>,
                   << "_", "u", "n", "i", "t", "t", "e", "s", "t", "." >> } }

\* the flags whose file name contains one of the patterns
Owners ==
  { it \in 1..Len(all_flags) :
      \E pattern \in OwnershipPatterns : Contains(all_flags[it].filename, pattern) }

\* C12: when no file name contains one of the seven patterns, module and
\* package_dir are empty, the module, package and subpackage buckets are empty,
\* every matched flag that is not a perfect match is in the other bucket, and the
\* listing is written: one flag line for every match, then the "~" line.
C12_NoOwner ==
  (Categorized /\ Owners = {}) =>
    /\ module = EmptyString
    /\ package_dir = EmptyString
    /\ notable_flags.module_flags = {}
    /\ notable_flags.package_flags = {}
    /\ notable_flags.subpackage_flags = {}
    /\ RetrieveUnusedFlags(matching_flags, notable_flags)
         = { it \in matching_flags : all_flags[it].name # canonical_token }
    /\ pc = "exited" =>
         /\ { stdout[k].flag : k \in FlagLinesOf(stdout) } = matching_flags
         /\ stdout[Len(stdout)] = TildeLine

\* no file has a pattern; a perfect match and another match are listed
C12_Witness ==
  /\ pc = "exited"
  /\ Categorized
  /\ Owners = {}
  /\ notable_flags.perfect_match_flag # {}
  /\ RetrieveUnusedFlags(matching_flags, notable_flags) # {}
  /\ \E it \in matching_flags : Contains(all_flags[it].filename, << "/" >>)

\* the flags C15 is about: matched, no perfect match, not defined in the module file
Unowned ==
  { it \in matching_flags :
      all_flags[it].name # canonical_token /\ all_flags[it].filename # module }

\* file is package_dir, one separator and a file name without a separator
InDirectory(file, dir) ==
  /\ StartsWith(file, dir \o << "/" >>)
  /\ ~ Contains(SubSeq(file, Len(dir) + 2, Len(file)), << "/" >>)

\* file is package_dir, one separator and a path with a further separator
BelowDirectory(file, dir) ==
  /\ StartsWith(file, dir \o << "/" >>)
  /\ Contains(SubSeq(file, Len(dir) + 2, Len(file)), << "/" >>)

FirstOccurrence(file, dir) ==
  CHOOSE p \in 0..Len(file) :
    /\ SubSeq(file, p + 1, p + Len(dir)) = dir
    /\ \A r \in 0..(p - 1) : SubSeq(file, r + 1, r + Len(dir)) # dir

\* a separator stands in file more than one character behind the first
\* occurrence of dir
SeparatorBehind(file, dir) ==
  \E k \in 1..Len(file) :
    file[k] = "/" /\ k - 1 >= FirstOccurrence(file, dir) + Len(dir) + 1

DirectoryOf(file) ==
  LET seps == { k \in 1..Len(file) : file[k] = "/" }
  IN  IF seps = {} THEN EmptyString
      ELSE SubSeq(file, 1, (CHOOSE k \in seps : \A other \in seps : other <= k) - 1)

\* C16: module is the file name of the first flag of all_flags whose file name
\* contains one of the seven patterns, also when a later flag has a pattern
\* that is earlier in the list, and package_dir is the part of that file name
\* before its last separator; both are empty when no file name has a pattern.
C16_Locator ==
  (Listing /\ pc \in {"categorize", "finalize", "output", "print", "exit", "exited"}) =>
    IF Owners = {}
    THEN module = EmptyString /\ package_dir = EmptyString
    ELSE LET first == CHOOSE it \in Owners : \A other \in Owners : it <= other
         IN  /\ module = all_flags[first].filename
             /\ package_dir = DirectoryOf(module)

\* the first owner has the pattern of _test, a later flag the pattern "/p."
C16_Witness ==
  /\ pc = "categorize"
  /\ module = << "e", "/", "p", "_", "t", "e", "s", "t", ".", "c" >>
  /\ package_dir = << "e" >>
  /\ \E it \in Owners : all_flags[it].filename = << "d", "/", "p", ".", "c" >>

\* the command the script is to complete for
TargetOf(args, line) ==
  LET command == args[Len(args) - 2][1]
  IN  IF command \in { "time", "env" }
      THEN (IF Len(line) >= 2 THEN line[2] ELSE "")
      ELSE command

\* C13: the completion word is the second-to-last argument; when it is empty
\* the script exits with status 0 and runs nothing; otherwise it runs the target
\* at most once, with its own arguments but the last three, then
\* --tab_completion_word and the word, so never with an empty word.
C13_Launcher ==
  LET n      == Len(script_args)
      word   == script_args[n - 1]
      target == TargetOf(script_args, comp_line)
  IN  /\ script_pc # "start" => completion_word = word
      /\ (script_pc = "exited" /\ word = EmptyString)
           => (exit_status = 0 /\ executed = << >>)
      /\ Len(executed) <= 1
      /\ \A k \in 1..Len(executed) :
           /\ executed[k].command =
                (IF TypeP(target) # "" THEN TypeP(target) ELSE target)
           /\ executed[k].args
                = SubSeq(script_args, 1, n - 3) \o << TabCompletionWord, word >>
           /\ executed[k].args[Len(executed[k].args)] # EmptyString

\* the flag lines of the first group that is output
FirstGroupLines(lines) ==
  { k \in FlagLinesOf(lines) : lines[k].indent = Len(output_groups) - 1 }

\* C14 as stated: in every listing the flags of the first selected group are
\* rendered in the long format and the flags of all later groups in the short
\* format, whichever bucket the first group is.
C14_FirstGroupLong ==
  (Listing /\ pc \in {"exit", "exited"}) =>
    \A k \in FlagLinesOf(stdout) : stdout[k].long <=> k \in FirstGroupLines(stdout)

\* C14, amended: the flags of the first selected group are rendered in the long
\* format exactly when that group is the group of the perfect match; the flags
\* of a first group that is another bucket and of all later groups are
\* rendered in the short format.
C14_LongOnlyPerfectMatch ==
  (Listing /\ pc \in {"print", "exit", "exited"}) =>
    /\ Len(output_groups) >= 1
    /\ notable_flags.perfect_match_flag # {}
         <=> output_groups[1].group = notable_flags.perfect_match_flag
    /\ FirstGroupLines(completions) # {}
    /\ \A k \in FlagLinesOf(completions) :
         completions[k].long
           <=> /\ k \in FirstGroupLines(completions)
               /\ output_groups[1].group = notable_flags.perfect_match_flag

\* no perfect match: the first group is the module group, another group follows
C14_Witness ==
  /\ pc = "exited"
  /\ Listing
  /\ notable_flags.perfect_match_flag = {}
  /\ Len(output_groups) >= 2
  /\ output_groups[1].group = notable_flags.module_flags
  /\ FirstGroupLines(stdout) # {}
  /\ FlagLinesOf(stdout) # FirstGroupLines(stdout)
  /\ \A k \in FlagLinesOf(stdout) : ~ stdout[k].long

\* the indentation of the lines of the group output_groups[g]
IndentOf(g) == Len(output_groups) - g

\* C19: a group with a header writes its header and underline only when at
\* least two lines remain at its start; with fewer it writes nothing and leaves
\* the remaining-line counter as it is; so every flag line of a group with a
\* header stands behind the header and underline of its group.
C19_Header ==
  /\ [][ (pc = "output" /\ group_it' = group_it + 1
            /\ output_groups[group_it].header # "")
          => LET g == output_groups[group_it]
                 n == Len(completions)
             IN  IF remaining_lines >= 2
                 THEN /\ Len(completions') >= n + 2
                      /\ SubSeq(completions', 1, n) = completions
                      /\ completions'[n + 1] = TextLine("header", IndentOf(group_it), g.header)
                      /\ completions'[n + 2] = TextLine("underline", IndentOf(group_it), g.header)
                 ELSE /\ completions' = completions
                      /\ remaining_lines' = remaining_lines
                      /\ completions_output' = completions_output ]_vars
  /\ [](Listed =>
         \A k \in FlagLinesOf(completions) :
           completions[k].flag \notin notable_flags.perfect_match_flag =>
             /\ k >= 3
             /\ completions[k - 1].indent = completions[k].indent
             /\ \/ completions[k - 1].kind = "flag"
                \/ /\ completions[k - 1].kind = "underline"
                   /\ completions[k - 2].kind = "header"
                   /\ completions[k - 2].indent = completions[k].indent)

\* one line is left at the start of a group with a header: nothing is written
C19_Witness ==
  /\ pc = "exited"
  /\ Listed
  /\ remaining_lines = 1
  /\ \E g \in 1..Len(output_groups) :
       /\ output_groups[g].header # ""
       /\ \A k \in 1..Len(stdout) :
            stdout[k].kind = "marker" \/ stdout[k].indent # IndentOf(g)

\* the place of a matched flag in the order perfectMatch, module, package,
\* mostCommon, subpackage, other
PriorityOf(b, it) == CHOOSE i \in 1..6 : it \in b[i]

\* C20: in every listing the flag lines follow the order of the buckets
\* perfectMatch, module, package, mostCommon, subpackage, other, and a flag that
\* is left out is behind every flag that is listed: no later flag of its bucket
\* and no flag of a bucket behind its bucket is listed.
C20_TailCut ==
  (Listing /\ pc \in {"print", "exit", "exited"}) =>
    LET b       == Buckets
        lines   == FlagLinesOf(completions)
        emitted == { completions[k].flag : k \in lines }
    IN  /\ \A k \in lines :
             k + 1 \in lines =>
               PriorityOf(b, completions[k].flag) <= PriorityOf(b, completions[k + 1].flag)
        /\ \A k \in lines :
             (k + 1 \notin lines /\ k + 1 <= Len(completions)) =>
               \A l \in lines :
                 l > k => PriorityOf(b, completions[k].flag) < PriorityOf(b, completions[l].flag)
        /\ \A out \in matching_flags \ emitted :
             \A it \in emitted :
               \/ PriorityOf(b, it) < PriorityOf(b, out)
               \/ PriorityOf(b, it) = PriorityOf(b, out) /\ it < out

\* the perfect match and a part of the next bucket are listed, the rest is cut
C20_Witness ==
  /\ pc = "exited"
  /\ Listing
  /\ completions_output < Cardinality(matching_flags)
  /\ \E k \in FlagLinesOf(stdout) : stdout[k].flag \in notable_flags.perfect_match_flag
  /\ \E k \in FlagLinesOf(stdout) : stdout[k].flag \notin notable_flags.perfect_match_flag

\* the text "<indent>--<name> [<default>] " a short line begins with
ShortPrefix ==
  line_indentation \o << "-", "-" >> \o info.name \o << " ", "[" >>
    \o (IF info.type = StringType THEN << "'" >> ELSE << >>) \o info.default_value
    \o (IF info.type = StringType THEN << "'" >> ELSE << >>) \o << "]", " " >>

\* C17: when the prefix of the short line is shorter than the number of
\* columns the line is at most that long: the description follows the prefix
\* as it is when it fits in the columns left, else cut to the columns left less
\* 3 and followed by "...", a line of exactly the number of columns; when no
\* column is left the description is left out.
C17_ShortLineFits ==
  render_pc = "returned" =>
    LET remaining == tab_completion_columns - Len(ShortPrefix)
        d         == info.description
    IN  /\ remaining > 0 => Len(output) <= tab_completion_columns
        /\ (remaining > 0 /\ Len(d) <= remaining) => output = ShortPrefix \o d
        /\ (remaining > 0 /\ Len(d) > remaining) =>
             /\ output = ShortPrefix \o SubSeq(d, 1, remaining - 3) \o << ".", ".", "." >>
             /\ Len(output) = tab_completion_columns
        /\ remaining <= 0 => output = ShortPrefix

\* C18: the long line has no line break, and the text behind each line break
\* that is replaced begins at a multiple of the number of columns, wherever the
\* line break stood, also at a multiple of the number of columns.
C18_Reflow ==
  /\ [](render_pc = "returned" => \A k \in 1..Len(output) : output[k] # "\n")
  /\ [][ (render_pc = "newlines" /\ output' # output)
          => LET newline == Find(output, << "\n" >>)
                 spaces  == Len(output') - Len(output) + 1
             IN  (newline + spaces) % tab_completion_columns = 0 ]_vars

====
